---- MODULE Spec2Model ----
(***************************************************************************)
(* Model of the AI assistant's conversational orchestration:               *)
(*   src/ai_assistant.py  AIAssistant.interact_with_model, AIAssistant.run *)
(*   src/utils.py         execute_bash_command, execute_python_code,       *)
(*                        extract_code_blocks                              *)
(*   src/rag_system.py    RAGSystem.get_relevant_context                   *)
(*                                                                         *)
(* Text is a sequence of tokens (atomic substrings); concatenation is \o.  *)
(* A message is a record [role, content].  The call stack of               *)
(* interact_with_model is explicit: one frame per active call.             *)
(***************************************************************************)
EXTENDS Naturals, Sequences, FiniteSets, TLC

\* ------------------------------------------------------------------ bounds
\* The session accepts an ordinary query while the persisted History holds at
\* most this many messages.
MaxHistory == 3
\* Depth of nested interact_with_model calls the model lets a run build.
MaxDepth == 3
\* Number of segments (fenced blocks or plain lines) of a response handed to
\* extract_code_blocks.
MaxBlocks == 2

\* ------------------------------------------------------------ text helpers
\* the three-backquote fence marker, one token
Fence == "FENCE"
NL == "\n"

IsWs(t) == t \in {" ", NL}

RECURSIVE LStrip(_)
LStrip(s) == IF s # <<>> /\ IsWs(Head(s)) THEN LStrip(Tail(s)) ELSE s

RECURSIVE RStrip(_)
RStrip(s) ==
  IF s # <<>> /\ IsWs(s[Len(s)]) THEN RStrip(SubSeq(s, 1, Len(s) - 1)) ELSE s

\* str.strip()
Strip(s) == RStrip(LStrip(s))

\* str.startswith(p)
StartsWith(s, p) == Len(s) >= Len(p) /\ SubSeq(s, 1, Len(p)) = p

\* str.endswith(NL)
EndsWithNL(s) == s # <<>> /\ s[Len(s)] = NL

\* str.split(NL): the lines of s, a non-empty sequence of texts
RECURSIVE SplitLines(_)
SplitLines(s) ==
  IF \E i \in 1..Len(s) : s[i] = NL
  THEN LET i == CHOOSE k \in 1..Len(s) :
                  s[k] = NL /\ \A m \in 1..(k - 1) : s[m] # NL
       IN <<SubSeq(s, 1, i - 1)>> \o SplitLines(SubSeq(s, i + 1, Len(s)))
  ELSE <<s>>

\* str.replace("**name**", "__name__")
ReplaceName(s) == [i \in 1..Len(s) |-> IF s[i] = "**name**" THEN "__name__" ELSE s[i]]

\* Optional[str]: None or a text
None == [isNone |-> TRUE, text |-> <<>>]
Some(t) == [isNone |-> FALSE, text |-> t]
\* the Python expression (x or empty string)
OrEmpty(x) == IF x.isNone THEN <<>> ELSE x.text

\* ------------------------------------------------------ extract_code_blocks
bash_patterns ==
  << <<Fence, "bash", NL>>,
     <<Fence, NL, "$", " ">>,
     <<Fence, "bash", NL, "$", " ">> >>

python_patterns ==
  << <<Fence, "python", NL>>,
     <<Fence, "py", NL>> >>

\* Where the pattern  opener(.*?)FENCE  matches in text: the start positions i
\* at which the opener stands and a closing fence follows it.
MatchStarts(text, opener) ==
  {i \in 1..Len(text) :
     /\ i + Len(opener) - 1 <= Len(text)
     /\ SubSeq(text, i, i + Len(opener) - 1) = opener
     /\ \E j \in (i + Len(opener))..Len(text) : text[j] = Fence}

\* re.findall(pattern, text, re.DOTALL)[0]: the lazy group of the leftmost match
FirstMatch(text, opener) ==
  LET i == CHOOSE k \in MatchStarts(text, opener) :
              \A m \in MatchStarts(text, opener) : k <= m
      b == i + Len(opener)
      j == CHOOSE k \in b..Len(text) :
              text[k] = Fence /\ \A m \in b..(k - 1) : text[m] # Fence
  IN SubSeq(text, b, j - 1)

\* the variant of FirstOfKind that passes over a pattern whose first match is blank
RECURSIVE FirstOfKind_NonEmpty(_, _)
FirstOfKind_NonEmpty(text, patterns) ==
  IF patterns = <<>> THEN <<>>
  ELSE IF MatchStarts(text, Head(patterns)) # {}
          /\ Strip(FirstMatch(text, Head(patterns))) # <<>>
       THEN <<FirstMatch(text, Head(patterns))>>
       ELSE FirstOfKind_NonEmpty(text, Tail(patterns))

\* for pattern in patterns: matches = findall; if matches: append(matches[0]); break
RECURSIVE FirstOfKind(_, _)
FirstOfKind(text, patterns) ==
  IF patterns = <<>> THEN <<>>
  ELSE IF MatchStarts(text, Head(patterns)) # {}
       THEN <<FirstMatch(text, Head(patterns))>>
       ELSE FirstOfKind(text, Tail(patterns))

\* the variant of CleanCommand that stops at the first line that is neither
\* blank nor a comment, also when nothing is left of it without the $
RECURSIVE CleanCommand_StopAtPrompt(_)
CleanCommand_StopAtPrompt(lines) ==
  IF lines = <<>> THEN <<>>
  ELSE LET line == Strip(Head(lines))
       IN IF line = <<>> \/ Head(line) = "#"
          THEN CleanCommand_StopAtPrompt(Tail(lines))
          ELSE IF Head(line) = "$" THEN Strip(Tail(line)) ELSE line

\* the loop over command_lines: first line that is neither blank nor a comment,
\* with a leading $ removed; the loop goes on when the line is empty after that
RECURSIVE CleanCommand(_)
CleanCommand(lines) ==
  IF lines = <<>> THEN <<>>
  ELSE LET line == Strip(Head(lines))
       IN IF line = <<>> \/ Head(line) = "#"
          THEN CleanCommand(Tail(lines))
          ELSE LET l2 == IF Head(line) = "$" THEN Strip(Tail(line)) ELSE line
               IN IF l2 # <<>> THEN l2 ELSE CleanCommand(Tail(lines))

CleanBashBlocks(blocks) ==
  IF blocks = <<>> THEN <<>>
  ELSE LET c == CleanCommand(SplitLines(Strip(blocks[1])))
       IN IF c # <<>> THEN <<c>> ELSE <<>>

\* the variant of CleanPythonBlocks that leaves the **name** token as it is
CleanPythonBlocks_NoRepair(blocks) ==
  IF blocks = <<>> THEN <<>> ELSE <<Strip(blocks[1])>>

CleanPythonBlocks(blocks) ==
  IF blocks = <<>> THEN <<>> ELSE <<ReplaceName(Strip(blocks[1]))>>

\* extract_code_blocks(text) = (clean_bash_blocks, clean_python_blocks)
extract_code_blocks(text) ==
  [bash   |-> CleanBashBlocks(FirstOfKind(text, bash_patterns)),
   python |-> CleanPythonBlocks(FirstOfKind(text, python_patterns))]

\* ------------------------------------------------------------------ values
Msg(r, c) == [role |-> r, content |-> c]

\* run: the initial system message (one token stands for its fixed text)
system_message == <<"SYS">>

\* interact_with_model: the recognized command tokens of the gate
system_commands ==
  << <<"/help">>, <<"/exit">>, <<"/ihtml">>, <<"/model">>, <<"/rag">>, <<"/clear_rag">> >>

\* any(query.startswith(cmd) for cmd in system_commands)
is_system_command(query) ==
  \E k \in 1..Len(system_commands) : StartsWith(query, system_commands[k])

\* str.lower() on the tokens the model uses
LowerTok(t) ==
  CASE t = "/EXIT" -> "/exit"
    [] t = "/Help" -> "/help"
    [] t = "/RAG" -> "/rag"
    [] OTHER -> t
Lower(s) == [i \in 1..Len(s) |-> LowerTok(s[i])]

\* What the user may type at the session prompt (line 207); Prompt.ask hands
\* the line over without its surrounding whitespace
Inputs ==
  { <<"hola">>, <<"/model">>, <<"/rag", "time">>,
    <<"/exit">>, <<"/EXIT">>, <<"/help">>, <<"/Help">>,
    <<"/ihtml", " ", "url">>, <<"/model", " ", "llama3">>,
    <<"/rag">>, <<"/clear_rag">> }

\* What the model may stream back: a sequence of chunks, each a text
R_plain == << <<"ok">> >>
R_python == << <<"run", NL, Fence, "python", NL, "print", NL, Fence>> >>
R_bash == << <<"try", NL, Fence, "bash", NL>>, <<"$", " ", "ls", NL, Fence>> >>
R_both ==
  << <<Fence, "bash", NL, "rm", " ", "x", NL, Fence, NL,
       Fence, "py", NL, "print", NL, Fence>> >>
Responses == {R_plain, R_python, R_bash, R_both}

\* What retrieval may find in a non-empty index
Contexts == {<<>>, <<"ctx">>}

\* What an evaluated script may print
PyOutputs == {<<>>, <<"out", NL>>}

\* What a shell command may leave on (stdout, stderr)
BashOutputs == { <<<<>>, <<>>>>, <<<<"file.txt">>, <<>>>>, <<<<>>, <<"err", NL>>>> }

ErrText == <<"boom">>

\* ------------------------------------------------------- the gate (53-83)
\* the variant of enhanced_system_message that leaves the original text out
enhanced_system_message_NoOriginal(messages, context) ==
  <<"\n\nContexto relevante:\n">> \o context \o <<"\n\nUtiliza este contexto">>

\* lines 66-71: the enhanced system message
enhanced_system_message(messages, context) ==
  messages[1].content \o <<"\n\nContexto relevante:\n">> \o context
                      \o <<"\n\nUtiliza este contexto">>

\* lines 53-81: current_messages, given what retrieval returned (None: not called)
current_messages(messages, context) ==
  IF context.isNone \/ context.text = <<>>
  THEN messages
  ELSE [messages EXCEPT ![1] = Msg("system", enhanced_system_message(messages, context.text))]

\* the variant of CallsRetrieval that does not look at processing_code
CallsRetrieval_AnyTurn(query, processing_code) == ~is_system_command(query)

\* the variant of CallsRetrieval that does not look at the query
CallsRetrieval_Always(query, processing_code) == ~processing_code

\* the variant of CopiesMessages in which the working history is the caller's list
CopiesMessages_Alias == FALSE

\* lines 62, 76, 78, 81: in every branch current_messages is messages.copy(),
\* a list of its own
CopiesMessages == TRUE

\* lines 114, 156: what history.append(m) does to the list the caller passed
OnCallerList(list, m) == IF CopiesMessages THEN list ELSE Append(list, m)

\* line 53, 58: retrieval is called for a top-level turn on a non-command query
CallsRetrieval(query, processing_code) ==
  ~processing_code /\ ~is_system_command(query)

\* RAGSystem.get_relevant_context: empty without a vector store, else what is found
get_relevant_context(store) == IF store THEN Contexts ELSE {<<>>}

\* --------------------------------------------------- decisions of the engine
\* the variant of ProcessesCode that forgets the processing_code flag
ProcessesCode_Always(processing_code) == TRUE

\* line 117: code is processed only outside a recursive call
ProcessesCode(processing_code) == ~processing_code

\* the variant of PythonHasResult that tests for None instead of emptiness
PythonHasResult_NotNone(result) == TRUE

\* line 130: if result
PythonHasResult(result) == result # <<>>

\* the variant of BashHasResult that drops the test
BashHasResult_Always(output, error) == TRUE

\* the variant of BashHasResult that tests truthiness (if output or error)
BashHasResult_Truthy(output, error) == OrEmpty(output) # <<>> \/ OrEmpty(error) # <<>>

\* line 142: if output is not None or error is not None
BashHasResult(output, error) == ~output.isNone \/ ~error.isNone

\* line 131
PythonExecutionResult(result) == <<"Resultado de la ejecucion:", NL>> \o result

\* line 143
BashExecutionResult(command, output, error) ==
  <<"Resultado de '">> \o command \o <<"':", NL>> \o OrEmpty(output) \o OrEmpty(error)

\* the variant of new_messages that leaves out the assistant response
new_messages_NoResponse(messages, full_response, execution_result) ==
  messages \o <<Msg("user", execution_result)>>

\* lines 132-134, 144-146: new_messages
new_messages(messages, full_response, execution_result) ==
  messages \o <<Msg("assistant", full_response), Msg("user", execution_result)>>

\* the variant of ConnectErrorHistory that returns the error message alone
ConnectErrorHistory_Bare(messages, e) ==
  <<Msg("assistant", <<"Error conectando con Ollama: ">> \o e)>>

\* line 98: the history returned when ollama.chat raises
ConnectErrorHistory(messages, e) ==
  messages \o <<Msg("assistant", <<"Error conectando con Ollama: ">> \o e)>>

\* line 156: the history after an error in the streaming loop
StreamErrorHistory(history, e) ==
  history \o <<Msg("assistant", <<"Error: ">> \o e)>>

\* line 114
WithResponse(history, full_response) ==
  history \o <<Msg("assistant", full_response)>>

\* ------------------------------------------------------------ the executors
\* the variant of BashRuns that runs the command whatever the answer
BashRuns_Unasked(answer) == TRUE

\* utils.py 40: the command runs when Confirm.ask answers yes
BashRuns(answer) == answer

\* utils.py 93-109: the code is evaluated when the choice is neither cancelar nor guardar
PythonRuns(response) == response # "cancelar" /\ response # "guardar"

\* utils.py 37: the words that make a command potentially dangerous
dangerous == {"rm", "mv", "cp", "chmod", "sudo"}

\* utils.py 37-38: the warning is printed when the command holds one of them
ShowsWarning(command) == \E i \in 1..Len(command) : LowerTok(command[i]) \in dangerous

\* utils.py 54-57: a non-empty stream ends with a newline
WithNewline(s) == IF s # <<>> /\ ~EndsWithNL(s) THEN s \o <<NL>> ELSE s

Choices == {"ejecutar", "guardar", "cancelar"}

\* ------------------------------------------------------------------- state
VARIABLES
  history,       \* run: the persisted History (local variable history)
  model,         \* self.model
  running,       \* the session loop is alive (no break yet)
  vector_store,  \* self.rag.vector_store is set
  stack,         \* active calls of interact_with_model, innermost last
  driver,        \* where run stands: "loop", "confirm_exit" (the prompt of line
                 \* 275), or how it ended: "exit", "interrupt", "abort"
  log            \* what the current top-level call did so far, in order

vars == <<history, model, running, vector_store, stack, driver, log>>

\* A call of interact_with_model(messages, query, processing_code) at its start
Frame(messages, query, processing_code) ==
  [messages |-> messages, passed |-> messages,
   query |-> query, processing_code |-> processing_code,
   context |-> None, history |-> <<>>, sent |-> <<>>,
   stream |-> <<>>, full_response |-> <<>>,
   bash_blocks |-> <<>>, python_blocks |-> <<>>,
   py_result |-> None, bash_result |-> <<>>,
   execution_result |-> <<>>, recursed |-> FALSE,
   pc |-> "gate", retval |-> <<>>]

top == stack[Len(stack)]
depth == Len(stack)
SetTop(f) == [stack EXCEPT ![Len(stack)] = f]
At(p) == running /\ stack # <<>> /\ top.pc = p
Ev(e) == [ev |-> e, pcode |-> top.processing_code]

\* what execute_bash_command shows before it asks: the warning, if any
Warned(command) == IF ShowsWarning(command) THEN <<Ev("warn")>> ELSE <<>>

\* return h
Returning(f, h) == [f EXCEPT !.pc = "ret", !.retval = h]

\* return self.interact_with_model(new_messages, execution_result, True)
Calling(f, execution_result) ==
  SetTop([f EXCEPT !.pc = "call", !.execution_result = execution_result,
                   !.recursed = TRUE])
    \o <<Frame(new_messages(f.messages, f.full_response, execution_result),
               execution_result, TRUE)>>

\* lines 139-152: the bash block is tried when no Python result made the turn recurse
TryBash(f) ==
  IF f.bash_blocks # <<>>
  THEN SetTop([f EXCEPT !.pc = "bash_confirm"])
  ELSE SetTop(Returning(f, f.history))

\* the variant of AfterPython that goes on to the bash block whatever the result
AfterPython_BashToo(f, result) == TryBash([f EXCEPT !.py_result = Some(result)])

\* lines 129-136 after execute_python_code returned result
AfterPython(f, result) ==
  LET g == [f EXCEPT !.py_result = Some(result)]
  IN IF PythonHasResult(result)
     THEN Calling(g, PythonExecutionResult(result))
     ELSE TryBash(g)

\* lines 141-147 after execute_bash_command returned (output, error)
AfterBash(f, output, error) ==
  LET g == [f EXCEPT !.bash_result = <<output, error>>]
  IN IF BashHasResult(output, error)
     THEN Calling(g, BashExecutionResult(g.bash_blocks[1], output, error))
     ELSE SetTop(Returning(g, g.history))

Init ==
  /\ history = <<Msg("system", system_message)>>
  /\ model = <<"qwen2.5-coder:7b">>
  /\ running = TRUE
  /\ vector_store \in BOOLEAN
  /\ stack = <<>>
  /\ driver = "loop"
  /\ log = <<>>

\* ------------------------------------------------------ interact_with_model
\* lines 53-83: the augmentation gate
Gate ==
  /\ At("gate")
  /\ depth <= MaxDepth
  /\ IF CallsRetrieval(top.query, top.processing_code)
     THEN \E context \in get_relevant_context(vector_store) :
            /\ stack' = SetTop([top EXCEPT !.pc = "chat",
                 !.context = Some(context),
                 !.history = current_messages(top.messages, Some(context))])
            /\ log' = log \o <<Ev("call"), Ev("retrieve")>>
     ELSE /\ stack' = SetTop([top EXCEPT !.pc = "chat",
                 !.history = current_messages(top.messages, None)])
          /\ log' = Append(log, Ev("call"))
  /\ UNCHANGED <<history, model, running, vector_store, driver>>

\* lines 89-94: ollama.chat returns a stream
ChatOk ==
  /\ At("chat")
  /\ \E r \in Responses :
       stack' = SetTop([top EXCEPT !.pc = "stream", !.sent = top.history,
                                   !.stream = r, !.full_response = <<>>])
  /\ log' = Append(log, Ev("chat"))
  /\ UNCHANGED <<history, model, running, vector_store, driver>>

\* lines 95-98: ollama.chat raises
ChatFail ==
  /\ At("chat")
  /\ stack' = SetTop(Returning([top EXCEPT !.sent = top.history],
                                ConnectErrorHistory(top.messages, ErrText)))
  /\ log' = log \o <<Ev("chat"), Ev("chat_error")>>
  /\ UNCHANGED <<history, model, running, vector_store, driver>>

\* lines 103-107: one chunk of the stream
StreamChunk ==
  /\ At("stream")
  /\ top.stream # <<>>
  /\ stack' = SetTop([top EXCEPT !.full_response = @ \o Head(top.stream),
                                 !.stream = Tail(@)])
  /\ UNCHANGED <<history, model, running, vector_store, log, driver>>

\* lines 154-157: the stream raises while it is consumed
StreamFail ==
  /\ At("stream")
  /\ LET h == StreamErrorHistory(top.history, ErrText)
         m == h[Len(h)]
     IN /\ stack' = SetTop(Returning([top EXCEPT !.messages = OnCallerList(@, m)], h))
        /\ history' = IF depth = 1 THEN OnCallerList(history, m) ELSE history
  /\ log' = Append(log, Ev("stream_error"))
  /\ UNCHANGED <<model, running, vector_store, driver>>

\* lines 109-127, 139, 152, 160: the stream ended
StreamEnd ==
  /\ At("stream")
  /\ top.stream = <<>>
  /\ LET h == WithResponse(top.history, top.full_response)
         b == extract_code_blocks(top.full_response)
         f == [top EXCEPT !.history = h, !.messages = OnCallerList(@, h[Len(h)])]
     IN /\ IF ~ProcessesCode(top.processing_code)
           THEN /\ stack' = SetTop(Returning(f, h))
                /\ log' = log
           ELSE LET g == [f EXCEPT !.bash_blocks = b.bash, !.python_blocks = b.python]
                IN /\ stack' = IF g.python_blocks # <<>>
                               THEN SetTop([g EXCEPT !.pc = "py_prompt"])
                               ELSE TryBash(g)
                   /\ log' = Append(log, Ev("extract"))
        /\ history' = IF depth = 1 THEN OnCallerList(history, h[Len(h)]) ELSE history
  /\ UNCHANGED <<model, running, vector_store, driver>>

\* utils.py 87-95: the user answers the prompt of execute_python_code
PyAnswer ==
  /\ At("py_prompt")
  /\ \E response \in Choices :
       /\ stack' = IF PythonRuns(response) THEN SetTop([top EXCEPT !.pc = "py_exec"])
                   ELSE IF response = "guardar" THEN SetTop([top EXCEPT !.pc = "py_save"])
                   ELSE AfterPython(top, <<>>)
       /\ log' = log \o <<Ev("offer_py"), Ev(response)>>
  /\ UNCHANGED <<history, model, running, vector_store, driver>>

\* the prompt of execute_python_code raises (end of input); lines 149-152 drop it
PyPromptRaises ==
  /\ At("py_prompt")
  /\ stack' = SetTop(Returning(top, top.history))
  /\ log' = log \o <<Ev("offer_py"), Ev("code_error")>>
  /\ UNCHANGED <<history, model, running, vector_store, driver>>

\* utils.py 97-107: guardar
PySave ==
  /\ At("py_save")
  /\ \/ \E ok \in BOOLEAN :
          /\ stack' = AfterPython(top,
               IF ok THEN <<"Codigo guardado en ", "script.py">>
                     ELSE <<"Error al guardar el archivo: ">> \o ErrText)
          /\ log' = IF ok THEN Append(log, Ev("save_py")) ELSE log
     \* the file-name prompt raises (end of input); lines 149-152 drop it
     \/ /\ stack' = SetTop(Returning(top, top.history))
        /\ log' = Append(log, Ev("code_error"))
  /\ UNCHANGED <<history, model, running, vector_store, driver>>

\* utils.py 109-125: ejecutar
PyExec ==
  /\ At("py_exec")
  /\ \/ /\ \E out \in PyOutputs : stack' = AfterPython(top, out)
        /\ UNCHANGED <<running, driver>>
     \* the script raises an Exception: lines 122-125 return its text
     \/ /\ stack' = AfterPython(top, <<"Error: ">> \o ErrText)
        /\ UNCHANGED <<running, driver>>
     \* the script raises SystemExit (sys.exit): it is no Exception, so neither
     \* utils.py 122 nor ai_assistant.py 149, 154, 274, 279 catch it; run is left
     \/ /\ stack' = SetTop([top EXCEPT !.pc = "raised"])
        /\ running' = FALSE
        /\ driver' = "abort"
  /\ log' = Append(log, Ev("exec_py"))
  /\ UNCHANGED <<history, model, vector_store>>

\* the variant of BashAnswer that refuses a command it warned about
BashAnswer_BlocksFlagged ==
  /\ At("bash_confirm")
  /\ \E answer \in BOOLEAN :
       /\ stack' = IF BashRuns(answer) /\ ~ShowsWarning(top.bash_blocks[1])
                   THEN SetTop([top EXCEPT !.pc = "bash_run"])
                   ELSE AfterBash(top, None, None)
       /\ log' = log \o Warned(top.bash_blocks[1])
                     \o <<Ev("offer_sh"), Ev(IF answer THEN "yes" ELSE "no")>>
  /\ UNCHANGED <<history, model, running, vector_store, driver>>

\* utils.py 36-40, 65-67: the warning, then the user answers Confirm.ask of
\* execute_bash_command
BashAnswer ==
  /\ At("bash_confirm")
  /\ \E answer \in BOOLEAN :
       /\ stack' = IF BashRuns(answer) THEN SetTop([top EXCEPT !.pc = "bash_run"])
                   ELSE AfterBash(top, None, None)
       /\ log' = log \o Warned(top.bash_blocks[1])
                     \o <<Ev("offer_sh"), Ev(IF answer THEN "yes" ELSE "no")>>
  /\ UNCHANGED <<history, model, running, vector_store, driver>>

\* utils.py 69-71: Confirm.ask raises (end of input)
BashConfirmRaises ==
  /\ At("bash_confirm")
  /\ stack' = AfterBash(top, None, Some(ErrText))
  /\ log' = log \o Warned(top.bash_blocks[1]) \o <<Ev("offer_sh"), Ev("bash_error")>>
  /\ UNCHANGED <<history, model, running, vector_store, driver>>

\* utils.py 41-64, 69-71: subprocess.run
BashRun ==
  /\ At("bash_run")
  /\ \/ \E o \in BashOutputs :
          stack' = AfterBash(top, Some(WithNewline(o[1])), Some(WithNewline(o[2])))
     \/ stack' = AfterBash(top, None, Some(ErrText))
  /\ log' = Append(log, Ev("run_sh"))
  /\ UNCHANGED <<history, model, running, vector_store, driver>>

\* lines 136, 147: the recursive call returned; its value is returned as it is
ReturnToCaller ==
  /\ At("ret")
  /\ depth > 1
  /\ stack' = [i \in 1..(depth - 1) |->
                 IF i = depth - 1 THEN Returning(stack[i], top.retval) ELSE stack[i]]
  /\ log' = Append(log, Ev("return"))
  /\ UNCHANGED <<history, model, running, vector_store, driver>>

\* line 272: history = self.interact_with_model(history, user_input)
ReturnToRun ==
  /\ At("ret")
  /\ depth = 1
  /\ history' = top.retval
  /\ stack' = <<>>
  /\ log' = <<>>
  /\ UNCHANGED <<model, running, vector_store, driver>>

\* ---------------------------------------------------------------------- run
AtPrompt == running /\ stack = <<>> /\ driver = "loop"

\* user_input[7:].strip() after "/ihtml " or "/model " (two tokens)
Argument(user_input) == Strip(SubSeq(user_input, 3, Len(user_input)))

\* lines 210-271: which branch of the loop body takes the input
Dispatch(user_input) ==
  LET l == Lower(user_input)
  IN CASE l = <<"/exit">> -> "exit"
       [] l = <<"/help">> -> "help"
       [] l # <<"/exit">> /\ l # <<"/help">> /\ StartsWith(l, <<"/ihtml", " ">>) -> "ihtml"
       [] l # <<"/exit">> /\ l # <<"/help">> /\ StartsWith(l, <<"/model", " ">>) -> "model"
       [] l = <<"/rag">> -> "rag"
       [] l = <<"/clear_rag">> -> "clear_rag"
       [] OTHER -> "query"

\* lines 210-212
Exit ==
  /\ AtPrompt
  /\ \E u \in Inputs : Dispatch(u) = "exit"
  /\ running' = FALSE
  /\ driver' = "exit"
  /\ UNCHANGED <<history, model, vector_store, stack, log>>

\* lines 214-225
Help ==
  /\ AtPrompt
  /\ \E u \in Inputs : Dispatch(u) = "help"
  /\ UNCHANGED vars

\* lines 228-236; add_html_from_url creates the vector store when it succeeds
Ihtml ==
  /\ AtPrompt
  /\ \E u \in Inputs :
       /\ Dispatch(u) = "ihtml"
       /\ IF Argument(u) # <<>>
          THEN \E success \in BOOLEAN : vector_store' = (vector_store \/ success)
          ELSE vector_store' = vector_store
  /\ UNCHANGED <<history, model, running, stack, log, driver>>

\* the variant of Model that starts the conversation over with the new model
Model_ResetsHistory ==
  /\ AtPrompt
  /\ \E u \in Inputs :
       /\ Dispatch(u) = "model"
       /\ model' = IF Argument(u) # <<>> THEN Argument(u) ELSE model
  /\ history' = <<history[1]>>
  /\ UNCHANGED <<running, vector_store, stack, log, driver>>

\* lines 239-246
Model ==
  /\ AtPrompt
  /\ \E u \in Inputs :
       /\ Dispatch(u) = "model"
       /\ model' = IF Argument(u) # <<>> THEN Argument(u) ELSE model
  /\ UNCHANGED <<history, running, vector_store, stack, log, driver>>

\* lines 249-258; index_documents creates the vector store when it succeeds
Rag ==
  /\ AtPrompt
  /\ \E u \in Inputs : Dispatch(u) = "rag"
  /\ \E success \in BOOLEAN : vector_store' = (vector_store \/ success)
  /\ UNCHANGED <<history, model, running, stack, log, driver>>

\* lines 261-268; clear_database re-opens the same collection
ClearRag ==
  /\ AtPrompt
  /\ \E u \in Inputs : Dispatch(u) = "clear_rag"
  /\ UNCHANGED vars

\* lines 270-272: an ordinary query
Query ==
  /\ AtPrompt
  /\ Len(history) <= MaxHistory
  /\ \E u \in Inputs :
       /\ Dispatch(u) = "query"
       /\ history' = Append(history, Msg("user", u))
       /\ stack' = <<Frame(history', u, FALSE)>>
  /\ log' = <<>>
  /\ UNCHANGED <<model, running, vector_store, driver>>

\* lines 279-283: an Exception leaves interact_with_model (the console.print of
\* the handler at lines 96-97 raises on the error text); run reports it and
\* loops, History keeps the user message appended at line 271
TurnRaises ==
  /\ At("chat")
  /\ stack' = <<>>
  /\ log' = <<>>
  /\ UNCHANGED <<history, model, running, vector_store, driver>>

\* the variant of Interrupt that leaves the loop without asking
Interrupt_Break ==
  /\ running
  /\ driver = "loop"
  /\ driver' = "interrupt"
  /\ running' = FALSE
  /\ stack' = <<>>
  /\ log' = <<>>
  /\ UNCHANGED <<history, model, vector_store>>

\* line 274: KeyboardInterrupt at the prompt or anywhere in a turn; the log
\* keeps that a turn was in progress
Interrupt ==
  /\ running
  /\ driver = "loop"
  /\ driver' = "confirm_exit"
  /\ stack' = <<>>
  /\ log' = IF stack # <<>> THEN <<[ev |-> "interrupted", pcode |-> FALSE]>> ELSE <<>>
  /\ UNCHANGED <<history, model, running, vector_store>>

\* lines 275-278: the answer to Confirm.ask
InterruptAnswer ==
  /\ running
  /\ driver = "confirm_exit"
  /\ \E answer \in BOOLEAN :
       /\ running' = ~answer
       /\ driver' = IF answer THEN "interrupt" ELSE "loop"
  /\ UNCHANGED <<history, model, vector_store, stack, log>>

Next ==
  \/ Exit \/ Help \/ Ihtml \/ Model \/ Rag \/ ClearRag \/ Query
  \/ TurnRaises \/ Interrupt \/ InterruptAnswer
  \/ Gate \/ ChatOk \/ ChatFail \/ StreamChunk \/ StreamFail \/ StreamEnd
  \/ PyAnswer \/ PyPromptRaises \/ PySave \/ PyExec
  \/ BashAnswer \/ BashConfirmRaises \/ BashRun
  \/ ReturnToCaller \/ ReturnToRun

Spec == Init /\ [][Next]_vars

\* a step of interact_with_model or of the executors it calls
EngineStep ==
  \/ Gate \/ ChatOk \/ ChatFail \/ StreamChunk \/ StreamFail \/ StreamEnd
  \/ PyAnswer \/ PyPromptRaises \/ PySave \/ PyExec
  \/ BashAnswer \/ BashConfirmRaises \/ BashRun
  \/ ReturnToCaller \/ ReturnToRun

\* the session when a turn in progress goes on: the chat stream delivers, ends
\* or fails, the user answers each prompt, evaluations and commands finish
FairSpec == Init /\ [][Next]_vars /\ WF_vars(EngineStep)

\* ------------------------------------------- responses for extract_code_blocks
\* how a fenced block may open
Openers ==
  { <<Fence, "bash", NL>>, <<Fence, NL, "$", " ">>,
    <<Fence, "python", NL>>, <<Fence, "py", NL>> }

\* what may stand between the opening line and the closing fence
Bodies ==
  { <<>>, <<NL>>, <<"a", NL>>,
    <<"#", " ", "c", NL, "$", " ", "ls", " ", "-la", NL>>,
    <<"$", " ", "pwd", NL>>,
    <<"$", NL, "b", NL>>,
    <<" ", "if", " ", "**name**", NL>> }

\* the pieces of a response: a line of prose or a closed fenced block
Segments ==
  {<<"hi", NL>>} \cup {o \o b \o <<Fence, NL>> : o \in Openers, b \in Bodies}

\* the responses made of n pieces
RECURSIVE TextsOf(_)
TextsOf(n) ==
  IF n = 0 THEN {<<>>}
  ELSE {t \o g : t \in TextsOf(n - 1), g \in Segments}

Texts == UNION {TextsOf(n) : n \in 0..MaxBlocks}

\* a user-initiated call at line 103, about to consume a stream that carries
\* the response in one chunk
ExtractInit ==
  /\ history = <<Msg("system", system_message), Msg("user", <<"hola">>)>>
  /\ model = <<"qwen2.5-coder:7b">>
  /\ running = TRUE
  /\ vector_store = FALSE
  /\ driver = "loop"
  /\ \E text \in Texts :
       stack = <<[Frame(history, <<"hola">>, FALSE) EXCEPT
                   !.context = Some(<<>>), !.history = history, !.sent = history,
                   !.stream = <<text>>, !.pc = "stream"]>>
  /\ log = <<[ev |-> "call", pcode |-> FALSE], [ev |-> "retrieve", pcode |-> FALSE],
             [ev |-> "chat", pcode |-> FALSE]>>

ExtractNext == StreamChunk \/ StreamEnd

ExtractSpec == ExtractInit /\ [][ExtractNext]_vars

\* ------------------------------------------------------------- observations
\* the positions of the log that hold event e
Events(e) == {i \in 1..Len(log) : log[i].ev = e}
Logged(e) == Events(e) # {}

\* the events of extraction, prompting and execution
CodeEvents ==
  {"extract", "offer_py", "ejecutar", "guardar", "cancelar", "code_error",
   "exec_py", "save_py", "warn", "offer_sh", "yes", "no", "bash_error", "run_sh"}

Last(h) == h[Len(h)]

\* the top-level call has returned and run has not yet taken its value
TopReturned == stack # <<>> /\ depth = 1 /\ stack[1].pc = "ret"

HasFencedCode(text) ==
  extract_code_blocks(text).bash # <<>> \/ extract_code_blocks(text).python # <<>>

\* ------------------------------------------------------------------- claims
\* C1: a user-initiated call of interact_with_model makes at most 2 model calls
\* and at most one recursive call, and the turn run with processing_code=True
\* does no extraction, asks no confirmation and executes nothing.
C1_BoundedRecursion ==
  /\ Cardinality(Events("chat")) <= 2
  /\ Cardinality({i \in Events("call") : log[i].pcode}) <= 1
  /\ depth <= 2
  /\ \A i \in 1..Len(log) : log[i].pcode => log[i].ev \notin CodeEvents

\* C1 witness: the recursive turn's response held fenced code and the call returned
C1_Witness ==
  /\ TopReturned
  /\ stack[1].recursed
  /\ Cardinality(Events("chat")) = 2
  /\ ~Logged("chat_error") /\ ~Logged("stream_error")
  /\ HasFencedCode(Last(stack[1].retval).content)

\* C2: whenever run awaits input, index 0 of the persisted History is the
\* initial system message.
C2_SystemMessageKept ==
  AtPrompt => history[1] = Msg("system", system_message)

\* C3: every run of a shell command directly follows a yes to its Confirm, and
\* every evaluation of a script directly follows the choice ejecutar.
C3_ConfirmedBeforeExecution ==
  /\ \A i \in Events("run_sh") :
       i >= 3 /\ log[i - 1].ev = "yes" /\ log[i - 2].ev = "offer_sh"
  /\ \A i \in Events("exec_py") :
       i >= 3 /\ log[i - 1].ev = "ejecutar" /\ log[i - 2].ev = "offer_py"

\* C3 witness: a script was evaluated and a shell command was run
C3_Witness == Logged("exec_py") /\ Logged("run_sh")

\* str.endswith(t)
EndsWith(s, t) == Len(s) >= Len(t) /\ SubSeq(s, Len(s) - Len(t) + 1, Len(s)) = t

\* the history frame f handed to its recursive call
RecursionInput(f) ==
  f.messages \o <<Msg("assistant", f.full_response), Msg("user", f.execution_result)>>

\* what the executor captured for the block that made f recurse
Captured(f) ==
  IF f.bash_result # <<>>
  THEN OrEmpty(f.bash_result[1]) \o OrEmpty(f.bash_result[2])
  ELSE f.py_result.text

\* the text of a whole response
RECURSIVE Join(_)
Join(chunks) == IF chunks = <<>> THEN <<>> ELSE Head(chunks) \o Join(Tail(chunks))

\* what a recursive turn can leave as its one assistant message
FollowUps ==
  {Join(r) : r \in Responses}
    \cup {<<"Error conectando con Ollama: ">> \o ErrText, <<"Error: ">> \o ErrText}

\* C4: when a block's execution yields a result in a top-level turn, the
\* recursive turn runs with processing_code=True on input history + [assistant:
\* full response, user: execution result holding the captured output], and the
\* caller returns that turn's result as it is: input + those two + one
\* assistant message.
C4_RecursionShape ==
  \A k \in 1..depth :
    LET f == stack[k]
    IN (~f.processing_code /\ f.recursed) =>
         /\ f.pc \in {"call", "ret"}
         /\ EndsWith(f.execution_result, Captured(f))
         /\ f.pc = "call" =>
              /\ k < depth
              /\ stack[k + 1].processing_code
              /\ stack[k + 1].messages = RecursionInput(f)
              /\ stack[k + 1].query = f.execution_result
         /\ f.pc = "ret" =>
              /\ Len(f.retval) = Len(f.messages) + 3
              /\ SubSeq(f.retval, 1, Len(f.messages) + 2) = RecursionInput(f)
              /\ Last(f.retval).role = "assistant"
              /\ Last(f.retval).content \in FollowUps

\* C4 witness: a shell command printed file.txt, the turn recursed and returned
C4_Witness ==
  /\ TopReturned
  /\ stack[1].recursed
  /\ stack[1].bash_result = <<Some(<<"file.txt", NL>>), Some(<<>>)>>
  /\ Last(stack[1].retval) = Msg("assistant", Join(R_plain))

\* C5: with a script block and a shell block in one response the script is
\* offered first, and when the script yields a result the turn recurses at once:
\* the shell block is neither offered nor run.
C5_ScriptFirst ==
  \A k \in 1..depth :
    LET f == stack[k]
    IN (f.python_blocks # <<>> /\ f.bash_blocks # <<>>) =>
         /\ \A i \in Events("offer_sh") : \E j \in Events("offer_py") : j < i
         /\ (~f.py_result.isNone /\ f.py_result.text # <<>>) =>
              /\ f.recursed
              /\ f.pc \in {"call", "ret"}
              /\ f.bash_result = <<>>
              /\ ~Logged("offer_sh") /\ ~Logged("run_sh")

\* C5 witness: both blocks, the script ran with output, the turn returned
C5_Witness ==
  /\ TopReturned
  /\ stack[1].python_blocks # <<>> /\ stack[1].bash_blocks # <<>>
  /\ Logged("exec_py")
  /\ stack[1].py_result = Some(<<"out", NL>>)

\* C6: when the user declines a shell command the turn is final: one model
\* call, no recursion, and the returned history is the working history, the
\* input messages (index 0 apart) plus the one assistant response.
C6_DeclineIsFinal ==
  Logged("no") =>
    /\ depth = 1
    /\ LET f == stack[1]
       IN /\ f.pc = "ret" /\ ~f.recursed
          /\ f.bash_result = <<None, None>>
          /\ Cardinality(Events("chat")) = 1
          /\ f.retval = f.history
          /\ Len(f.retval) = Len(f.messages) + 1
          /\ Last(f.retval) = Msg("assistant", f.full_response)
          /\ \A i \in 2..Len(f.messages) : f.retval[i] = f.messages[i]

\* C6 witness: a shell command was declined and the call returned
C6_Witness == Logged("no") /\ TopReturned /\ ~Logged("offer_py")

\* C7 (as stated): after the choice cancelar the turn is final: no recursive
\* call, and no shell block of the response is offered or run.
C7_CancelIsFinal ==
  Logged("cancelar") =>
    /\ depth = 1 /\ stack[1].pc = "ret" /\ ~stack[1].recursed
    /\ ~Logged("offer_sh") /\ ~Logged("run_sh")
    /\ stack[1].retval = stack[1].history
    /\ Last(stack[1].retval) = Msg("assistant", stack[1].full_response)

\* C7 (amended): after the choice cancelar the script is not run and causes no
\* recursive call; without a shell block the turn is final and returns the
\* working history ending with the assistant response; with a shell block that
\* block is offered next, and the turn is final only if the shell command is
\* declined.
C7_CancelThenShell ==
  Logged("cancelar") =>
    LET f == stack[1]
    IN /\ ~Logged("exec_py") /\ ~Logged("save_py")
       /\ f.py_result = Some(<<>>)
       /\ f.recursed => f.bash_result # <<>>
       /\ f.bash_blocks = <<>> =>
            /\ depth = 1 /\ f.pc = "ret" /\ ~f.recursed
       /\ f.bash_blocks # <<>> =>
            /\ f.pc \in {"bash_confirm", "bash_run", "call", "ret"}
            /\ f.pc # "bash_confirm" => Logged("offer_sh")
            /\ f.pc = "ret" => (f.recursed <=> ~Logged("no"))
       /\ (f.pc = "ret" /\ ~f.recursed) =>
            /\ f.retval = f.history
            /\ Len(f.retval) = Len(f.messages) + 1
            /\ Last(f.retval) = Msg("assistant", f.full_response)

\* C7 witness: the script was cancelled, then the shell block of the same
\* response was run and the turn recursed
C7_Witness ==
  /\ TopReturned
  /\ Logged("cancelar") /\ Logged("run_sh")
  /\ stack[1].recursed

\* C8: after the choice guardar the turn is final: no recursive call and no
\* synthetic user message.
C8_SaveIsFinal ==
  Logged("guardar") =>
    /\ depth = 1 /\ ~stack[1].recursed
    /\ stack[1].pc = "ret" => Len(stack[1].retval) = Len(stack[1].messages) + 1

\* a failure of the chat capability in the call of frame f
FailedIn(f) ==
  \E i \in Events("chat_error") \cup Events("stream_error") :
    log[i].pcode = f.processing_code

\* C9: a turn whose chat call or stream fails makes no further model call, does
\* no extraction or execution, and returns its input history followed by one
\* assistant message with the error text.
C9_FailureHistory ==
  \A k \in 1..depth :
    LET f == stack[k]
    IN (FailedIn(f) /\ f.pc = "ret") =>
         /\ ~f.recursed
         /\ Cardinality({i \in Events("chat") : log[i].pcode = f.processing_code}) <= 1
         /\ \A i \in 1..Len(log) :
              log[i].pcode = f.processing_code => log[i].ev \notin CodeEvents
         /\ Len(f.retval) = Len(f.messages) + 1
         /\ SubSeq(f.retval, 1, Len(f.messages)) = f.messages
         /\ Last(f.retval).role = "assistant"
         /\ EndsWith(Last(f.retval).content, ErrText)

\* C10: execute_bash_command returns (None, None) exactly when the user
\* refuses; the turn does not recurse on it, and it does recurse, feeding a
\* result message to the model, on a confirmed run that printed nothing.
C10_DeclinedVsEmpty ==
  \A k \in 1..depth :
    LET f == stack[k]
    IN f.bash_result # <<>> =>
         /\ (f.bash_result = <<None, None>>) <=> Logged("no")
         /\ f.bash_result = <<None, None>> =>
              /\ ~Logged("run_sh")
              /\ ~f.recursed /\ f.pc = "ret"
         /\ f.bash_result = <<Some(<<>>), Some(<<>>)>> =>
              /\ Logged("yes") /\ Logged("run_sh")
              /\ f.recursed /\ f.pc \in {"call", "ret"}
              /\ f.execution_result = <<"Resultado de '">> \o f.bash_blocks[1] \o <<"':", NL>>
              /\ f.pc = "call" =>
                   Last(stack[k + 1].messages) = Msg("user", f.execution_result)
              /\ f.pc = "ret" =>
                   f.retval[Len(f.retval) - 1] = Msg("user", f.execution_result)

\* C10 witness: a confirmed command printed nothing and the turn recursed
C10_Witness ==
  /\ TopReturned
  /\ stack[1].bash_result = <<Some(<<>>), Some(<<>>)>>
  /\ stack[1].recursed
  /\ Cardinality(Events("chat")) = 2

\* the command tokens as the specification lists them
CommandTokens == {"/help", "/exit", "/ihtml", "/model", "/rag", "/clear_rag"}

\* the text is one of the command tokens or begins with one
BeginsWithCommand(text) == text # <<>> /\ text[1] \in CommandTokens

\* the call has passed the point where the messages are handed to ollama.chat
Sent(f) == f.pc \notin {"gate", "chat"}

\* C11: for a query that is, or begins with, a recognized command token the gate
\* does not call get_relevant_context, and the messages sent to the model are
\* the input history unchanged.
C11_CommandBypassesRetrieval ==
  \A i \in 1..depth :
    BeginsWithCommand(stack[i].query) =>
      /\ stack[i].context.isNone
      /\ i = 1 => ~Logged("retrieve")
      /\ Sent(stack[i]) => stack[i].sent = stack[i].messages

\* C11 witness: with a document index present, a query that begins with /rag
\* was sent to the model
C11_Witness ==
  /\ vector_store
  /\ stack # <<>>
  /\ stack[1].query = <<"/rag", "time">>
  /\ stack[1].pc = "stream"
  /\ Len(stack[1].sent) >= 2

\* C12: for a query that is not a command the messages sent to the model differ
\* from the input history at most at index 0: they equal it when retrieval
\* returned empty text; otherwise index 0 is a system message made of the
\* original system text, the delimiter and the retrieved text (closed by the
\* fixed instruction), and every later message is the input message.
C12_AugmentsOnlySystem ==
  \A i \in 1..depth :
    LET f == stack[i]
    IN (~BeginsWithCommand(f.query) /\ Sent(f)) =>
         /\ Len(f.sent) = Len(f.messages)
         /\ \A k \in 2..Len(f.messages) : f.sent[k] = f.messages[k]
         /\ (f.context.isNone \/ f.context.text = <<>>) => f.sent = f.messages
         /\ ~f.processing_code => ~f.context.isNone
         /\ (~f.context.isNone /\ f.context.text # <<>>) =>
              /\ f.sent[1].role = "system"
              /\ f.sent[1].content =
                   f.messages[1].content \o <<"\n\nContexto relevante:\n">>
                     \o f.context.text \o <<"\n\nUtiliza este contexto">>

\* C12 witness: retrieval returned text for an ordinary query and the augmented
\* messages were sent
C12_Witness ==
  /\ stack # <<>>
  /\ stack[1].query = <<"hola">>
  /\ Sent(stack[1])
  /\ ~stack[1].context.isNone
  /\ stack[1].context.text = <<"ctx">>
  /\ stack[1].sent # stack[1].messages

\* C13: an input that equals or begins with a recognized slash-command
\* (compared case-insensitively) is dispatched as a command: it is never
\* appended to History and never passed to interact_with_model.
C13_CommandsStayInDriver ==
  /\ \A k \in 1..Len(history) :
       history[k].role = "user" => ~BeginsWithCommand(Lower(history[k].content))
  /\ stack # <<>> => ~BeginsWithCommand(Lower(stack[1].query))

\* C14: the session loop ends only on /exit or on a confirmed interrupt; no
\* exception raised by a turn ends it.
C14_LoopEndsOnlyOnRequest == ~running => driver \in {"exit", "interrupt"}

\* C15: once the script was handed to exec, execute_python_code has returned a
\* text to its caller, whatever the script raised.
C15_ExecNeverPropagates ==
  Logged("exec_py") => (stack # <<>> /\ ~stack[1].py_result.isNone)

\* the confirmed script of the call failed: it left an error text or no result
ScriptFailed(f) ==
  Logged("exec_py") /\ (f.py_result.isNone \/ StartsWith(f.py_result.text, <<"Error: ">>))

\* C16: when a confirmed script execution fails, the call recurses once with a
\* synthetic user message that holds the error text; when the code stage of
\* the engine itself raises, the error is dropped, the call does not recurse
\* and returns the working history ending with the assistant response.
C16_FailureFedBack ==
  stack # <<>> =>
    LET f == stack[1]
    IN /\ ScriptFailed(f) =>
            /\ f.recursed
            /\ ~f.py_result.isNone
            /\ EndsWith(f.execution_result, f.py_result.text)
            /\ Cardinality({i \in Events("call") : log[i].pcode}) <= 1
            /\ depth <= 2
            /\ depth = 2 =>
                 Last(stack[2].messages) = Msg("user", f.execution_result)
       /\ Logged("code_error") =>
            /\ ~f.recursed
            /\ depth = 1
            /\ f.pc = "ret"
            /\ f.retval = f.history
            /\ Last(f.retval) = Msg("assistant", f.full_response)

\* ------------------------------------------------ claims on extract_code_blocks
\* the call has extracted the blocks of its response (line 121)
Extracted == stack # <<>> /\ stack[1].pc \notin {"gate", "chat", "stream"}

Min(S) == CHOOSE x \in S : \A y \in S : x <= y
Max(S) == CHOOSE x \in S : \A y \in S : x >= y

\* a fenced block opened by opener stands at position i of text and is closed
Occurs(text, opener, i) ==
  /\ i + Len(opener) - 1 <= Len(text)
  /\ \A k \in 1..Len(opener) : text[i + k - 1] = opener[k]
  /\ \E j \in (i + Len(opener))..Len(text) : text[j] = Fence

\* what stands between the opener at i and the next fence
Body(text, opener, i) ==
  LET b == i + Len(opener)
  IN SubSeq(text, b, Min({j \in b..Len(text) : text[j] = Fence}) - 1)

BlockStarts(text, openers) ==
  {i \in 1..Len(text) : \E o \in openers : Occurs(text, o, i)}

\* the body of the block of the kind that appears first in the text
FirstBlock(text, openers) ==
  LET i == Min(BlockStarts(text, openers))
  IN Body(text, CHOOSE o \in openers : Occurs(text, o, i), i)

PythonOpeners == {python_patterns[k] : k \in 1..Len(python_patterns)}
BashOpeners == {bash_patterns[k] : k \in 1..Len(bash_patterns)}

\* C17: extract_code_blocks returns two lists of at most one element each, and
\* of several fenced blocks of one kind the one that appears first in the text
\* survives; the later ones are discarded.
C17_FirstInTextSurvives ==
  Extracted =>
    LET f == stack[1]
        t == f.full_response
    IN /\ Len(f.bash_blocks) <= 1
       /\ Len(f.python_blocks) <= 1
       /\ f.python_blocks =
            IF BlockStarts(t, PythonOpeners) = {} THEN <<>>
            ELSE CleanPythonBlocks(<<FirstBlock(t, PythonOpeners)>>)
       /\ f.bash_blocks =
            IF BlockStarts(t, BashOpeners) = {} THEN <<>>
            ELSE CleanBashBlocks(<<FirstBlock(t, BashOpeners)>>)

\* the pattern matches somewhere in the text
Matches(text, opener) == BlockStarts(text, {opener}) # {}

\* the group of the first match of the pattern
FirstCapture(text, opener) == Body(text, opener, Min(BlockStarts(text, {opener})))

\* the patterns of the list, by index, that satisfy Good
Winner(patterns, Good(_)) == Min({k \in 1..Len(patterns) : Good(patterns[k])})
Some1(patterns, Good(_)) == \E k \in 1..Len(patterns) : Good(patterns[k])

\* C18 as stated: within one kind the patterns are tried in priority order and
\* the first pattern whose first match is non-empty (for a shell block: yields
\* a command) wins, also when a pattern of higher priority matched a blank block.
C18_FirstNonEmptyMatchWins ==
  Extracted =>
    LET f == stack[1]
        t == f.full_response
        GoodPy(o) == Matches(t, o) /\ Strip(FirstCapture(t, o)) # <<>>
        GoodSh(o) == Matches(t, o) /\ CleanBashBlocks(<<FirstCapture(t, o)>>) # <<>>
    IN /\ Some1(python_patterns, GoodPy) =>
            f.python_blocks = CleanPythonBlocks(
              <<FirstCapture(t, python_patterns[Winner(python_patterns, GoodPy)])>>)
       /\ Some1(bash_patterns, GoodSh) =>
            f.bash_blocks = CleanBashBlocks(
              <<FirstCapture(t, bash_patterns[Winner(bash_patterns, GoodSh)])>>)

\* C18 amended: within one kind the patterns are tried in priority order and
\* the first pattern that matches anywhere in the text wins, whatever its first
\* match holds; a pattern of lower priority is consulted only when no pattern
\* of higher priority matches at all.
C18_FirstMatchingPatternWins ==
  Extracted =>
    LET f == stack[1]
        t == f.full_response
        Hit(o) == Matches(t, o)
    IN /\ f.python_blocks =
            IF Some1(python_patterns, Hit)
            THEN CleanPythonBlocks(
                   <<FirstCapture(t, python_patterns[Winner(python_patterns, Hit)])>>)
            ELSE <<>>
       /\ f.bash_blocks =
            IF Some1(bash_patterns, Hit)
            THEN CleanBashBlocks(
                   <<FirstCapture(t, bash_patterns[Winner(bash_patterns, Hit)])>>)
            ELSE <<>>

\* C18 witness: the python pattern matched a blank block, the py pattern a block
\* with code, and the blank one was extracted
C18_Witness ==
  /\ Extracted
  /\ Matches(stack[1].full_response, python_patterns[1])
  /\ Strip(FirstCapture(stack[1].full_response, python_patterns[1])) = <<>>
  /\ Matches(stack[1].full_response, python_patterns[2])
  /\ Strip(FirstCapture(stack[1].full_response, python_patterns[2])) # <<>>
  /\ stack[1].python_blocks = << <<>> >>

\* the shell block the extraction matched
BashMatched(t) == Some1(bash_patterns, LAMBDA o : Matches(t, o))
RawBash(t) ==
  FirstCapture(t, bash_patterns[Winner(bash_patterns, LAMBDA o : Matches(t, o))])

\* the line without surrounding whitespace and without a leading $ marker
Unprompt(line) ==
  LET l == Strip(line)
  IN IF l # <<>> /\ l[1] = "$" THEN Strip(SubSeq(l, 2, Len(l))) ELSE l

NotBlankNorComment(line) == Strip(line) # <<>> /\ Strip(line)[1] # "#"

\* C19 as stated: the command of a matched shell block is the first line that
\* is neither blank nor starts with #, without its leading $ and surrounding
\* whitespace; a block with no such line yields an empty shell list.
C19_FirstQualifyingLine ==
  (Extracted /\ BashMatched(stack[1].full_response)) =>
    LET lines == SplitLines(RawBash(stack[1].full_response))
        Q == {n \in 1..Len(lines) : NotBlankNorComment(lines[n])}
    IN stack[1].bash_blocks =
         IF Q = {} THEN <<>> ELSE <<Unprompt(lines[Min(Q)])>>

\* C19 amended: the command is the first line that is neither blank nor
\* starts with # and is not empty once its leading $ and the whitespace around
\* it are removed; it is returned without them, later lines are dropped, and a
\* block with no such line yields an empty shell list.
C19_FirstCommandLine ==
  (Extracted /\ BashMatched(stack[1].full_response)) =>
    LET lines == SplitLines(RawBash(stack[1].full_response))
        Q == {n \in 1..Len(lines) :
                NotBlankNorComment(lines[n]) /\ Unprompt(lines[n]) # <<>>}
    IN stack[1].bash_blocks =
         IF Q = {} THEN <<>> ELSE <<Unprompt(lines[Min(Q)])>>

\* C19 witness: the matched shell block holds a line with only the $ marker
\* before its command, and the command was extracted
C19_Witness ==
  /\ Extracted
  /\ BashMatched(stack[1].full_response)
  /\ LET lines == SplitLines(RawBash(stack[1].full_response))
     IN \E n \in 1..Len(lines) :
          /\ NotBlankNorComment(lines[n])
          /\ Unprompt(lines[n]) = <<>>
          /\ \A m \in 1..(n - 1) : ~NotBlankNorComment(lines[m])
  /\ stack[1].bash_blocks = << <<"b">> >>

\* the script block the extraction matched
PythonMatched(t) == Some1(python_patterns, LAMBDA o : Matches(t, o))
RawPython(t) ==
  FirstCapture(t, python_patterns[Winner(python_patterns, LAMBDA o : Matches(t, o))])

\* C20: the extracted script is the text of the matched block without the
\* whitespace around it, with every **name** token replaced by __name__ and
\* every other token left as it is.
C20_ScriptNormalised ==
  (Extracted /\ PythonMatched(stack[1].full_response)) =>
    LET raw == RawPython(stack[1].full_response)
        Ink == {i \in 1..Len(raw) : ~IsWs(raw[i])}
        a == IF Ink = {} THEN 1 ELSE Min(Ink)
        b == IF Ink = {} THEN 0 ELSE Max(Ink)
    IN /\ Len(stack[1].python_blocks) = 1
       /\ Len(stack[1].python_blocks[1]) = b - a + 1
       /\ \A i \in 1..(b - a + 1) :
            stack[1].python_blocks[1][i] =
              IF raw[a + i - 1] = "**name**" THEN "__name__" ELSE raw[a + i - 1]

\* C20 witness: the matched script block holds the **name** token between
\* whitespace, and the extracted script holds __name__ in its place
C20_Witness ==
  /\ Extracted
  /\ PythonMatched(stack[1].full_response)
  /\ LET raw == RawPython(stack[1].full_response)
     IN /\ \E i \in 1..Len(raw) : raw[i] = "**name**"
        /\ IsWs(raw[1])
        /\ IsWs(raw[Len(raw)])
  /\ stack[1].python_blocks = << <<"if", " ", "__name__">> >>

\* ------------------------------------------------------ claims on the histories
\* list h holds the messages of list g at every index from the second on
KeepsTail(h, g) ==
  /\ Len(h) >= Len(g)
  /\ \A k \in 2..Len(g) : h[k] = g[k]

\* C22: in every history interact_with_model returns and in every state of the
\* persisted History index 0 is a system message, and the history only grows:
\* the messages of the input from index 1 on stand unchanged, in order, at the
\* same places of the returned history.
C22_SystemFirstAppendOnly ==
  /\ history # <<>>
  /\ history[1].role = "system"
  /\ \A i \in 1..depth :
       stack[i].pc = "ret" =>
         /\ stack[i].retval # <<>>
         /\ stack[i].retval[1].role = "system"
         /\ KeepsTail(stack[i].retval, stack[i].messages)
  /\ stack # <<>> => KeepsTail(stack[1].messages, history)

\* C22 witness: a call that was augmented and recursed has returned a history
\* three messages longer than its input, and an earlier turn is in the input
C22_Witness ==
  /\ TopReturned
  /\ stack[1].recursed
  /\ Len(stack[1].messages) >= 4
  /\ stack[1].sent[1] # stack[1].messages[1]
  /\ Len(stack[1].retval) = Len(stack[1].messages) + 3

\* C23: the recursive turn (processing_code = True) makes no retrieval call and
\* sends the model exactly the history it was passed: the caller's input with
\* its original system message, the assistant response and the synthetic user
\* message with the execution result.
C23_RecursiveTurnVerbatim ==
  \A i \in 1..depth :
    stack[i].processing_code =>
      /\ i >= 2
      /\ stack[i].context.isNone
      /\ \A n \in Events("retrieve") : ~log[n].pcode
      /\ stack[i].messages =
           stack[i - 1].messages
             \o <<Msg("assistant", stack[i - 1].full_response),
                  Msg("user", stack[i - 1].execution_result)>>
      /\ Sent(stack[i]) => stack[i].sent = stack[i].messages

\* C23 witness: the first model call was augmented with retrieved text and the
\* recursive turn has sent its messages
C23_Witness ==
  /\ depth = 2
  /\ stack[1].context.text = <<"ctx">>
  /\ stack[1].sent[1] # stack[1].messages[1]
  /\ stack[2].pc = "stream"
  /\ stack[2].sent[1] = stack[1].messages[1]

\* C24 as stated: a user interrupt raised while a turn is in progress ends the
\* session; the session never awaits input again with the interrupted turn's
\* user message left in History.
C24_InterruptEndsSession ==
  ~(AtPrompt /\ Logged("interrupted") /\ Last(history).role = "user")

\* C24 amended: a user interrupt raised while a turn is in progress abandons
\* the turn and asks whether to leave; the session ends only when the user
\* confirms, and otherwise goes back to accepting input, History being left as
\* it was, with the interrupted turn's user message.
C24_InterruptAsksFirst ==
  [][/\ (stack # <<>> /\ driver = "loop" /\ driver' # "loop" /\ stack' = <<>>) =>
          /\ driver' = "confirm_exit"
          /\ running'
          /\ history' = history
          /\ Last(history).role = "user"
     /\ driver = "confirm_exit" =>
          /\ driver' \in {"loop", "interrupt"}
          /\ running' = (driver' = "loop")
          /\ history' = history
          /\ stack' = <<>>
     /\ (running /\ ~running') =>
          \/ driver = "confirm_exit" /\ driver' = "interrupt"
          \/ driver = "loop" /\ driver' \in {"exit", "abort"}]_vars

\* C24 witness: a turn was interrupted, the user declined to leave, and the
\* session awaits input with that turn's user message last in History
C24_Witness ==
  /\ AtPrompt
  /\ Logged("interrupted")
  /\ Last(history) = Msg("user", <<"hola">>)

\* the command holds one of the words execute_bash_command warns about
Flagged(command) ==
  \E i \in 1..Len(command) : command[i] \in {"rm", "mv", "cp", "chmod", "sudo"}

\* C25: the warning about a destructive command is advisory: whether the
\* command runs depends on the answer to the confirmation alone; a confirmed
\* command runs, flagged or not, and a declined command does not.
C25_WarningIsAdvisory ==
  stack # <<>> =>
    /\ Logged("warn") <=> (Logged("offer_sh") /\ Flagged(stack[1].bash_blocks[1]))
    /\ Logged("yes") => (stack[1].pc = "bash_run" \/ Logged("run_sh"))
    /\ Logged("no") => (stack[1].pc # "bash_run" /\ ~Logged("run_sh"))
    /\ Logged("run_sh") => Logged("yes")

\* C25 witness: a command that drew the warning was confirmed and has run
C25_Witness ==
  /\ stack # <<>>
  /\ Logged("warn")
  /\ Logged("yes")
  /\ Logged("run_sh")
  /\ stack[1].bash_blocks = << <<"rm", " ", "x">> >>

\* C26: of the blocks extracted from one response at most one is executed: the
\* script block and the shell block of the same response are never both run.
C26_OneBlockPerResponse == ~(Logged("exec_py") /\ Logged("run_sh"))

\* C27: whenever run awaits user input, the persisted History is a system
\* message followed by strictly alternating user and assistant messages, and
\* is either the system message alone or ends with an assistant message.
C27_AlternatingHistory ==
  AtPrompt =>
    /\ history[1].role = "system"
    /\ \A k \in 2..Len(history) :
         history[k].role = IF k % 2 = 0 THEN "user" ELSE "assistant"
    /\ Len(history) = 1 \/ Last(history).role = "assistant"

C29_CommandsLeaveHistory ==
  [][(AtPrompt /\ stack' = <<>> /\ driver' # "confirm_exit") =>
       /\ history' = history
       /\ log' = log
       /\ model' # model =>
            /\ UNCHANGED <<running, vector_store, driver>>
            /\ \E u \in Inputs :
                 /\ Len(u) >= 3
                 /\ u[1] = "/model"
                 /\ model' = SubSeq(u, 3, Len(u))
       /\ driver' = "exit" => (model' = model /\ vector_store' = vector_store)]_vars

\* C29 witness: after a turn the model was changed by /model and run awaits
\* input with the turn still in History
C29_Witness ==
  /\ AtPrompt
  /\ model = <<"llama3">>
  /\ Len(history) >= 3
  /\ history[2] = Msg("user", <<"hola">>)

\* C30: every call of interact_with_model eventually returns a history, given
\* that the stream ends or fails and the user answers each prompt (a call is
\* also over when an interrupt or a reported exception abandons the turn);
\* each call consumes one response and the chain of calls holds at most one
\* nested call.
C30_EveryCallReturns ==
  /\ [](depth <= 2)
  /\ [](Cardinality(Events("chat")) <= Cardinality(Events("call")))
  /\ (depth >= 1) ~> (depth = 0 \/ stack[1].pc = "ret")
  /\ (depth >= 2) ~> (depth <= 1 \/ stack[2].pc = "ret")

====
